---- MODULE Spec2Model ----
(***************************************************************************)
(* Model of the Glulx interpreter core of glulx-terp-rs: the image loader  *)
(* (GlulxTerp::from_reader, Memory::new, Header), the flat Memory with its *)
(* absolute and RAM-relative big-endian accessors, and the instruction     *)
(* decoder (Operation::fetch, Operand::fetch_for_opcode,                   *)
(* OperandAddressingMode::try_fetch, OPCode::get_operand_types).           *)
(*                                                                         *)
(* A u8 is a number in 0..255 and a u16 a number in 0..65535.  A u32 is    *)
(* the pair <<hi, lo>> of its two 16-bit halves, so that every 32-bit      *)
(* value, sum and difference is computed at its full width.                *)
(***************************************************************************)
EXTENDS Integers, Sequences, FiniteSets, TLC

VARIABLES
  image,              \* the bytes handed to the loader (the reader's content)
  status,             \* "start", "loaded", "failed", "panicked"; for the
                      \* decoder alone "decode", "decoded"
  result,             \* what from_reader returned
  raw,                \* Memory.raw
  start_ram_address,  \* Memory.start_ram_address
  pc,                 \* GlulxTerp.pc, or the pos given to Operation::fetch
  header_reads,       \* number of calls of Memory::get_header so far
  last,               \* the last Memory accessor call and what it gave
  nops,               \* number of Memory accessor calls so far
  operation           \* what Operation::fetch returned

vars == <<image, status, result, raw, start_ram_address, pc, header_reads,
          last, nops, operation>>

----------------------------------------------------------------------------
(* Bounds of the model.                                                    *)

\* number of 32-bit words an input image may carry after its 36-byte header
MaxWords == 1
\* number of Memory accessor calls made on a loaded image
MaxOps == 2
\* number of bytes in a decoder input
MaxLen == 6

----------------------------------------------------------------------------
(* Fixed-width integers.                                                   *)

W16 == 256 * 256

U32Zero == <<0, 0>>

\* u32::from_be_bytes / read_u32::<BigEndian>
u32_from_be_bytes(b) == <<b[1] * 256 + b[2], b[3] * 256 + b[4]>>

\* u16::from_be_bytes / read_u16::<BigEndian>
u16_from_be_bytes(b) == b[1] * 256 + b[2]

\* u32::to_be_bytes
u32_to_be_bytes(v) == <<v[1] \div 256, v[1] % 256, v[2] \div 256, v[2] % 256>>

\* u16::to_be_bytes
u16_to_be_bytes(v) == <<v \div 256, v % 256>>

\* `x as u32` of a u8 or u16: zero-extension
as_u32(x) == <<0, x>>

\* `value as u8`, `value as u16` of a u32: truncation
as_u8(v) == v[2] % 256

as_u16(v) == v[2]

\* u32::wrapping_add
wrapping_add(a, b) ==
  LET lo == a[2] + b[2]
      hi == a[1] + b[1] + (lo \div W16)
  IN  <<hi % W16, lo % W16>>

\* a < b on u32
u32_lt(a, b) == a[1] < b[1] \/ (a[1] = b[1] /\ a[2] < b[2])

\* a - b on u32, modulo 2^32
wrapping_sub(a, b) ==
  LET lo == a[2] - b[2]
      borrow == IF lo < 0 THEN 1 ELSE 0
      hi == a[1] - b[1] - borrow
  IN  <<hi % W16, lo % W16>>

----------------------------------------------------------------------------
(* Memory (memory.rs).                                                     *)

\* #[br(magic = b"Glul")]
Magic == <<71, 108, 117, 108>>

Slice(bytes, from, n) == SubSeq(bytes, from + 1, from + n)

\* an index `pos as usize` with `width` bytes lies inside the buffer
InBuffer(bytes, pos, width) == pos[1] = 0 /\ pos[2] + width <= Len(bytes)

\* Memory::get_u8 .. get_u32 on an index inside the buffer
get_u8(bytes, pos) == bytes[pos[2] + 1]

get_u16(bytes, pos) == u16_from_be_bytes(Slice(bytes, pos[2], 2))

get_u32(bytes, pos) == u32_from_be_bytes(Slice(bytes, pos[2], 4))

\* copy_from_slice of `data` at index pos
Overwrite(bytes, pos, data) ==
  [i \in 1..Len(bytes) |->
     IF i > pos[2] /\ i <= pos[2] + Len(data) THEN data[i - pos[2]] ELSE bytes[i]]

\* Memory::set_u8 .. set_u32 on an index inside the buffer
set_u8(bytes, pos, value) == Overwrite(bytes, pos, <<value>>)

set_u16(bytes, pos, value) == Overwrite(bytes, pos, u16_to_be_bytes(value))

set_u32(bytes, pos, value) == Overwrite(bytes, pos, u32_to_be_bytes(value))

\* add_ram_offset with a saturating sum in place of the wrapping one
add_ram_offset_saturating(start, value) ==
  LET lo == start[2] + value[2]
      hi == start[1] + value[1] + (lo \div W16)
  IN  IF hi >= W16 THEN <<W16 - 1, W16 - 1>> ELSE <<hi, lo % W16>>

\* Memory::add_ram_offset
add_ram_offset(start, value) == wrapping_add(start, value)

\* Memory::get_header: the binread parse of Header from a cursor at 0
get_header(bytes) ==
  IF Len(bytes) < 4 THEN [kind |-> "Err", err |-> "Io"]
  ELSE IF Slice(bytes, 0, 4) # Magic THEN [kind |-> "Err", err |-> "BadMagic"]
  ELSE IF Len(bytes) < 36 THEN [kind |-> "Err", err |-> "Io"]
  ELSE [kind |-> "Ok",
        version |-> Slice(bytes, 4, 4),
        ram_start |-> u32_from_be_bytes(Slice(bytes, 8, 4)),
        ext_start |-> u32_from_be_bytes(Slice(bytes, 12, 4)),
        end_mem |-> u32_from_be_bytes(Slice(bytes, 16, 4)),
        stack_size |-> u32_from_be_bytes(Slice(bytes, 20, 4)),
        start_func |-> u32_from_be_bytes(Slice(bytes, 24, 4)),
        decoding_tree |-> u32_from_be_bytes(Slice(bytes, 28, 4)),
        checksum |-> u32_from_be_bytes(Slice(bytes, 32, 4))]

\* the length below which Memory::new refuses the image
HeaderSize == 36

\* Memory::new parsing the header before it looks at the length
Memory_new_header_first(bytes) ==
  LET header == get_header(bytes)
  IN  IF header.kind # "Ok"
      THEN [kind |-> "Panic", err |-> "Bad file header", n |-> 0, reads |-> 1]
      ELSE IF Len(bytes) < HeaderSize
      THEN [kind |-> "Err", err |-> "NotEnoughData", n |-> Len(bytes), reads |-> 1]
      ELSE [kind |-> "Ok", err |-> "", n |-> 0, reads |-> 1,
            start_ram_address |-> header.ram_start]

\* Memory::new; `reads` counts the get_header calls it makes
Memory_new(bytes) ==
  IF Len(bytes) < HeaderSize
  THEN [kind |-> "Err", err |-> "NotEnoughData", n |-> Len(bytes), reads |-> 0]
  ELSE LET header == get_header(bytes)
       IN  IF header.kind # "Ok"
           THEN [kind |-> "Panic", err |-> "Bad file header", n |-> 0, reads |-> 1]
           ELSE [kind |-> "Ok", err |-> "", n |-> 0, reads |-> 1,
                 start_ram_address |-> header.ram_start]

----------------------------------------------------------------------------
(* GlulxTerp::from_reader (mod.rs).                                        *)

\* const CHECKSUM_POS: u32 = 8*4
CHECKSUM_POS == 8 * 4

\* checksum_loop leaving out the last word below limit
RECURSIVE checksum_loop_short(_, _, _, _)
checksum_loop_short(bytes, index, limit, checksum) ==
  IF ~(index + 4 < limit) THEN [kind |-> "Ok", checksum |-> checksum]
  ELSE IF ~InBuffer(bytes, <<0, index>>, 4) THEN [kind |-> "Panic", checksum |-> checksum]
  ELSE checksum_loop_short(bytes, index + 4, limit,
                           wrapping_add(checksum, get_u32(bytes, <<0, index>>)))

\* the two `while index < limit` loops: sums the words at index, index+4, ..
\* below limit; get_u32 panics when its slice runs past the buffer
RECURSIVE checksum_loop(_, _, _, _)
checksum_loop(bytes, index, limit, checksum) ==
  IF ~(index < limit) THEN [kind |-> "Ok", checksum |-> checksum]
  ELSE IF ~InBuffer(bytes, <<0, index>>, 4) THEN [kind |-> "Panic", checksum |-> checksum]
  ELSE checksum_loop(bytes, index + 4, limit,
                     wrapping_add(checksum, get_u32(bytes, <<0, index>>)))

\* the whole of from_reader on the bytes read from the source
from_reader(bytes) ==
  LET memory == Memory_new(bytes)
  IN  IF memory.kind = "Err"
      THEN [kind |-> "Err", err |-> memory.err, n |-> memory.n, reads |-> memory.reads]
      ELSE IF memory.kind = "Panic"
      THEN [kind |-> "Panic", err |-> memory.err, n |-> 0, reads |-> memory.reads]
      ELSE
        LET header == get_header(bytes)
            valid_checksum == get_u32(bytes, <<0, CHECKSUM_POS>>)
            first == checksum_loop(bytes, 0, CHECKSUM_POS, U32Zero)
            second == checksum_loop(bytes, CHECKSUM_POS + 4, Len(bytes), first.checksum)
        IN  IF second.kind = "Panic"
            THEN [kind |-> "Panic", err |-> "range end index out of range", n |-> 0,
                  reads |-> memory.reads + 1]
            ELSE IF second.checksum # valid_checksum
            THEN [kind |-> "Err", err |-> "BadChecksum", n |-> 0,
                  reads |-> memory.reads + 1]
            ELSE [kind |-> "Ok", err |-> "", n |-> 0, reads |-> memory.reads + 1,
                  start_ram_address |-> memory.start_ram_address,
                  pc |-> header.start_func]
----------------------------------------------------------------------------
(* Input images.                                                           *)

InputMagics == {Magic, <<71, 108, 117, 120>>, <<0, 108, 117, 108>>}

InputRamStarts == {<<0, 36>>, <<0, 40>>, <<65535, 65520>>}

InputWords == {<<0, 0, 0, 0>>, <<255, 255, 255, 255>>, <<0, 0, 1, 0>>}

\* an image is cut to at most this many bytes (NoCut leaves it whole)
NoCut == 36 + 4 * (MaxWords + 1)

InputCuts == {0, 3, 35, 38, NoCut}

RECURSIVE Flatten(_)
Flatten(ws) == IF ws = <<>> THEN <<>> ELSE Head(ws) \o Flatten(Tail(ws))

InputBodies == UNION {{Flatten(ws) : ws \in [1..k -> InputWords]} : k \in 0..MaxWords}

\* version 3.1.1, ext_start 0x28, end_mem 0x100, stack_size 0x100,
\* start_func 0x24, decoding_tree 0
InputHeader(magic, ram_start, checksum) ==
  magic \o <<0, 3, 1, 1>> \o u32_to_be_bytes(ram_start) \o <<0, 0, 0, 40>>
        \o <<0, 0, 1, 0>> \o <<0, 0, 1, 0>> \o <<0, 0, 0, 36>> \o <<0, 0, 0, 0>>
        \o u32_to_be_bytes(checksum)

\* the 32-bit sum of two words given as 4 big-endian bytes each, by ripple
\* carry over the bytes
RECURSIVE ByteAdd(_, _, _, _)
ByteAdd(a, b, i, carry) ==
  IF i = 0 THEN <<>>
  ELSE LET s == a[i] + b[i] + carry
       IN  Append(ByteAdd(a, b, i - 1, s \div 256), s % 256)

\* the sum modulo 2^32 of the whole 32-bit big-endian words k, k+1, .. of
\* bytes, the word at offset 32 counted as zero, as 4 big-endian bytes
RECURSIVE WordSum(_, _)
WordSum(bytes, k) ==
  IF 4 * k + 4 > Len(bytes) THEN <<0, 0, 0, 0>>
  ELSE ByteAdd(IF 4 * k = 32 THEN <<0, 0, 0, 0>> ELSE Slice(bytes, 4 * k, 4),
               WordSum(bytes, k + 1), 4, 0)

SumOfWords(bytes) == u32_from_be_bytes(WordSum(bytes, 0))

InputChecksums(magic, ram_start, body) ==
  LET sum == SumOfWords(InputHeader(magic, ram_start, U32Zero) \o body)
  IN  {sum, wrapping_add(sum, <<0, 1>>), U32Zero}

Cut(bytes, n) == SubSeq(bytes, 1, IF n < Len(bytes) THEN n ELSE Len(bytes))

InputImages ==
  UNION {{Cut(InputHeader(t[1], t[2], c) \o t[3], t[4]) :
            c \in InputChecksums(t[1], t[2], t[3])} :
         t \in InputMagics \X InputRamStarts \X InputBodies \X InputCuts}

\* absolute addresses, RAM offsets and values given to the Memory accessors
InputAddresses == {<<0, 34>>, <<0, 36>>, <<0, 39>>, <<65535, 65535>>}

InputOffsets == {<<0, 0>>, <<65535, 65532>>, <<0, 52>>}

InputValues == {<<43981, 4852>>}

----------------------------------------------------------------------------
(* The loader and the Memory accessors as a state machine.                 *)

NoAccess == [op |-> "none", pos |-> U32Zero, value |-> U32Zero, out |-> U32Zero]

NoOperation == [kind |-> "None"]

NoResult == [kind |-> "None"]

Init ==
  /\ image \in InputImages
  /\ status = "start"
  /\ result = NoResult
  /\ raw = <<>>
  /\ start_ram_address = U32Zero
  /\ pc = U32Zero
  /\ header_reads = 0
  /\ last = NoAccess
  /\ nops = 0
  /\ operation = NoOperation

\* GlulxTerp::from_reader on the image
Load ==
  /\ status = "start"
  /\ LET r == from_reader(image)
     IN  /\ result' = r
         /\ header_reads' = r.reads
         /\ status' = CASE r.kind = "Ok" -> "loaded"
                        [] r.kind = "Err" -> "failed"
                        [] OTHER -> "panicked"
         /\ raw' = IF r.kind = "Ok" THEN image ELSE <<>>
         /\ start_ram_address' = IF r.kind = "Ok" THEN r.start_ram_address ELSE U32Zero
         /\ pc' = IF r.kind = "Ok" THEN r.pc ELSE U32Zero
  /\ UNCHANGED <<image, last, nops, operation>>

\* a getter of `width` bytes at the absolute address addr; indexing past the
\* buffer panics
Getter(op, pos, addr, width) ==
  /\ status = "loaded"
  /\ nops < MaxOps
  /\ nops' = nops + 1
  /\ IF InBuffer(raw, addr, width)
     THEN /\ status' = "loaded"
          /\ last' = [op |-> op, pos |-> pos, value |-> U32Zero,
                      out |-> CASE width = 1 -> as_u32(get_u8(raw, addr))
                                [] width = 2 -> as_u32(get_u16(raw, addr))
                                [] OTHER -> get_u32(raw, addr)]
     ELSE /\ status' = "panicked"
          /\ last' = [op |-> op, pos |-> pos, value |-> U32Zero, out |-> U32Zero]
  /\ UNCHANGED <<image, result, raw, start_ram_address, pc, header_reads, operation>>

\* a setter that refuses a range reaching below start_ram_address
Setter_guarding_rom(op, pos, given, addr, width, value) ==
  /\ status = "loaded"
  /\ nops < MaxOps
  /\ nops' = nops + 1
  /\ last' = [op |-> op, pos |-> pos, value |-> given, out |-> U32Zero]
  /\ IF InBuffer(raw, addr, width) /\ ~u32_lt(addr, start_ram_address)
     THEN /\ status' = "loaded"
          /\ raw' = CASE width = 1 -> set_u8(raw, addr, value)
                      [] width = 2 -> set_u16(raw, addr, value)
                      [] OTHER -> set_u32(raw, addr, value)
     ELSE /\ status' = IF InBuffer(raw, addr, width) THEN "loaded" ELSE "panicked"
          /\ raw' = raw
  /\ UNCHANGED <<image, result, start_ram_address, pc, header_reads, operation>>

\* a setter of `width` bytes at the absolute address addr; value is the u8,
\* u16 or u32 the absolute setter receives
Setter(op, pos, given, addr, width, value) ==
  /\ status = "loaded"
  /\ nops < MaxOps
  /\ nops' = nops + 1
  /\ last' = [op |-> op, pos |-> pos, value |-> given, out |-> U32Zero]
  /\ IF InBuffer(raw, addr, width)
     THEN /\ status' = "loaded"
          /\ raw' = CASE width = 1 -> set_u8(raw, addr, value)
                      [] width = 2 -> set_u16(raw, addr, value)
                      [] OTHER -> set_u32(raw, addr, value)
     ELSE /\ status' = "panicked"
          /\ raw' = raw
  /\ UNCHANGED <<image, result, start_ram_address, pc, header_reads, operation>>

GetU8 == \E pos \in InputAddresses : Getter("get_u8", pos, pos, 1)

GetU16 == \E pos \in InputAddresses : Getter("get_u16", pos, pos, 2)

GetU32 == \E pos \in InputAddresses : Getter("get_u32", pos, pos, 4)

GetRamU8 ==
  \E pos \in InputOffsets :
    Getter("get_ram_u8", pos, add_ram_offset(start_ram_address, pos), 1)

GetRamU16 ==
  \E pos \in InputOffsets :
    Getter("get_ram_u16", pos, add_ram_offset(start_ram_address, pos), 2)

GetRamU32 ==
  \E pos \in InputOffsets :
    Getter("get_ram_u32", pos, add_ram_offset(start_ram_address, pos), 4)

SetU8 ==
  \E pos \in InputAddresses, v \in InputValues :
    Setter("set_u8", pos, as_u32(as_u8(v)), pos, 1, as_u8(v))

SetU16 ==
  \E pos \in InputAddresses, v \in InputValues :
    Setter("set_u16", pos, as_u32(as_u16(v)), pos, 2, as_u16(v))

SetU32 ==
  \E pos \in InputAddresses, v \in InputValues :
    Setter("set_u32", pos, v, pos, 4, v)

SetRamU8 ==
  \E pos \in InputOffsets, v \in InputValues :
    Setter("set_ram_u8", pos, v, add_ram_offset(start_ram_address, pos), 1, as_u8(v))

SetRamU16 ==
  \E pos \in InputOffsets, v \in InputValues :
    Setter("set_ram_u16", pos, v, add_ram_offset(start_ram_address, pos), 2, as_u16(v))

SetRamU32 ==
  \E pos \in InputOffsets, v \in InputValues :
    Setter("set_ram_u32", pos, v, add_ram_offset(start_ram_address, pos), 4, v)

Next ==
  \/ Load
  \/ GetU8 \/ GetU16 \/ GetU32
  \/ GetRamU8 \/ GetRamU16 \/ GetRamU32
  \/ SetU8 \/ SetU16 \/ SetU32
  \/ SetRamU8 \/ SetRamU16 \/ SetRamU32

Spec == Init /\ [][Next]_vars
----------------------------------------------------------------------------
(* Properties of the loader and of Memory, checked under Spec.             *)

\* from_reader has returned (or panicked) and no accessor was called yet
JustLoaded == status # "start" /\ nops = 0

GoodMagic(bytes) == Len(bytes) >= 4 /\ Slice(bytes, 0, 4) = Magic

\* bytes with the byte at index i (from 0) replaced by b
WithByte(bytes, i, b) == [bytes EXCEPT ![i + 1] = b]

\* loading every image that differs from the loaded one in one byte, at an
\* index of `where`, fails with BadChecksum
EveryChangeFails(where) ==
  \A i \in where, b \in 0..255 :
    b # image[i + 1] =>
      LET r == from_reader(WithByte(image, i, b))
      IN  r.kind = "Err" /\ r.err = "BadChecksum"

\* an image with the magic, of a length >= 36 that is a multiple of 4, loads
\* exactly when its word at offset 32 is the sum modulo 2^32 of its words with
\* that word counted as zero, and fails with BadChecksum otherwise
ChecksumDecides ==
  /\ result.kind = "Ok" <=> get_u32(image, <<0, 32>>) = SumOfWords(image)
  /\ result.kind # "Ok" => (result.kind = "Err" /\ result.err = "BadChecksum")

Checked == JustLoaded /\ GoodMagic(image) /\ Len(image) >= 36 /\ Len(image) % 4 = 0

\* C1 as claimed: the checksum decides the load, and changing any single
\* byte outside the checksum field of an accepted image makes loading fail
\* with BadChecksum.
C1_AnyByteChange ==
  Checked =>
    /\ ChecksumDecides
    /\ result.kind = "Ok" => EveryChangeFails((0..(Len(image) - 1)) \ (32..35))

\* C1 as the loader has it: the checksum decides the load, and changing any
\* single byte outside the magic (bytes 0..3) and the checksum field of an
\* accepted image makes loading fail with BadChecksum.
C1_ChecksumAcceptance ==
  Checked =>
    /\ ChecksumDecides
    /\ result.kind = "Ok" => EveryChangeFails((4..(Len(image) - 1)) \ (32..35))

\* an image with a non-zero word after its header was accepted
C1_Witness ==
  /\ Checked
  /\ result.kind = "Ok"
  /\ Len(image) > 36
  /\ get_u32(image, <<0, 36>>) # U32Zero

\* C2: an image whose first 4 bytes are not "Glul" fails to load with the
\* error BadMagic, whatever its layout and checksum (stated for the images
\* of at least 36 bytes; a shorter one is refused for its length, C3).
C2_BadMagic ==
  (JustLoaded /\ Len(image) >= 36 /\ ~GoodMagic(image)) =>
    (result.kind = "Err" /\ result.err = "BadMagic")

\* C3: an image of length len < 36 fails to load with NotEnoughData(len), and
\* the header is not parsed.
C3_NotEnoughData ==
  (JustLoaded /\ Len(image) < 36) =>
    /\ result.kind = "Err"
    /\ result.err = "NotEnoughData"
    /\ result.n = Len(image)
    /\ header_reads = 0
    /\ status = "failed"

\* an image of 35 bytes that starts with the magic was refused
C3_Witness ==
  /\ JustLoaded
  /\ Len(image) = 35
  /\ GoodMagic(image)
  /\ result.err = "NotEnoughData"

RamOps == {"get_ram_u8", "get_ram_u16", "get_ram_u32",
           "set_ram_u8", "set_ram_u16", "set_ram_u32"}

SetOps == {"set_u8", "set_u16", "set_u32", "set_ram_u8", "set_ram_u16", "set_ram_u32"}

WidthOf(op) ==
  CASE op \in {"get_u8", "set_u8", "get_ram_u8", "set_ram_u8"} -> 1
    [] op \in {"get_u16", "set_u16", "get_ram_u16", "set_ram_u16"} -> 2
    [] OTHER -> 4

\* (start + offset) mod 2^32, by ripple carry over the bytes
RamAddress(start, offset) ==
  u32_from_be_bytes(ByteAdd(u32_to_be_bytes(start), u32_to_be_bytes(offset), 4, 0))

\* what the absolute accessor of the same width does at address addr of
\* bytes: <<the status, the memory, the value returned>>
Absolute(op, bytes, addr, value) ==
  IF ~InBuffer(bytes, addr, WidthOf(op)) THEN <<"panicked", bytes, U32Zero>>
  ELSE CASE op = "get_ram_u8" -> <<"loaded", bytes, as_u32(get_u8(bytes, addr))>>
         [] op = "get_ram_u16" -> <<"loaded", bytes, as_u32(get_u16(bytes, addr))>>
         [] op = "get_ram_u32" -> <<"loaded", bytes, get_u32(bytes, addr)>>
         [] op = "set_ram_u8" -> <<"loaded", set_u8(bytes, addr, value[2] % 256), U32Zero>>
         [] op = "set_ram_u16" -> <<"loaded", set_u16(bytes, addr, value[2]), U32Zero>>
         [] OTHER -> <<"loaded", set_u32(bytes, addr, value), U32Zero>>

\* the step is a call of a Memory accessor
Accessed == nops' = nops + 1

\* C9: get_ram_u8/u16/u32(offset) and set_ram_u8/u16/u32(offset, v) do what
\* the absolute accessor does at address (ram_start + offset) mod 2^32.
C9_RamRelative ==
  [][(Accessed /\ last'.op \in RamOps) =>
       <<status', raw', last'.out>> =
         Absolute(last'.op, raw, RamAddress(start_ram_address, last'.pos), last'.value)]_vars

\* a RAM-relative write succeeded at an address formed by wrapping around
C9_Witness ==
  /\ status = "loaded"
  /\ last.op = "set_ram_u32"
  /\ u32_lt(RamAddress(start_ram_address, last.pos), start_ram_address)
  /\ get_u32(raw, RamAddress(start_ram_address, last.pos)) = last.value
  /\ raw # image

\* C10 as claimed: after any sequence of setter calls the bytes of
\* [0, ram_start) are those of the loaded image.
C10_RomUnchanged ==
  status \in {"loaded", "panicked"} =>
    \A i \in 1..Len(raw) : u32_lt(<<0, i - 1>>, start_ram_address) => raw[i] = image[i]

\* the address a setter call writes at
TargetOf(access, start) ==
  IF access.op \in RamOps THEN RamAddress(start, access.pos) ELSE access.pos

\* the bytes a setter call writes
DataOf(access) ==
  LET b == u32_to_be_bytes(access.value)
  IN  CASE WidthOf(access.op) = 1 -> <<b[4]>>
        [] WidthOf(access.op) = 2 -> <<b[3], b[4]>>
        [] OTHER -> b

\* C10 as Memory has it: a setter checks nothing about ROM; a call whose byte
\* range lies in the buffer succeeds and stores the value big-endian at its
\* address, also below ram_start, and changes no other byte; a call whose
\* range leaves the buffer panics and changes nothing.
C10_SettersWriteAnywhere ==
  [][(Accessed /\ last'.op \in SetOps) =>
       LET addr == TargetOf(last', start_ram_address)
           data == DataOf(last')
       IN  IF InBuffer(raw, addr, Len(data))
           THEN /\ status' = "loaded"
                /\ Len(raw') = Len(raw)
                /\ \A i \in 1..Len(raw) :
                     raw'[i] = IF i > addr[2] /\ i <= addr[2] + Len(data)
                               THEN data[i - addr[2]] ELSE raw[i]
           ELSE status' = "panicked" /\ raw' = raw]_vars

\* a setter call succeeded and a byte below ram_start differs from the image
C10_Witness ==
  /\ status = "loaded"
  /\ last.op \in SetOps
  /\ \E i \in 1..Len(raw) : u32_lt(<<0, i - 1>>, start_ram_address) /\ raw[i] # image[i]

----------------------------------------------------------------------------
(* The instruction decoder (operations/mod.rs).                            *)

\* enum OPCode with its #[repr(u32)] discriminants
OPCode ==
  [ADD |-> 16, SUB |-> 17, MUL |-> 18, DIV |-> 19, MOD |-> 20, NEG |-> 21,
   BITAND |-> 24, BITOR |-> 25, BITXOR |-> 26, BITNOT |-> 27, SHIFTL |-> 28,
   SSHIFTR |-> 29, USHIFTR |-> 30, JUMP |-> 32, JZ |-> 34, JNZ |-> 35,
   JEQ |-> 36, JNE |-> 37, JLT |-> 38, JGE |-> 39, JGT |-> 40, JLE |-> 41,
   JLTU |-> 42, JGEU |-> 43, JGTU |-> 44, JLEU |-> 45, JUMPABS |-> 260,
   COPY |-> 64, COPYS |-> 65, COPYB |-> 66, SEXS |-> 68, SEXB |-> 69,
   ALOAD |-> 72, ALOADS |-> 73, ALOADB |-> 74, ALOADBIT |-> 75,
   ASTORE |-> 76, ASTORES |-> 77, ASTOREB |-> 78, ASTOREBIT |-> 79,
   STKCOUNT |-> 80, STKPEEK |-> 81, STKSWAP |-> 82, STKROLL |-> 83,
   STKCOPY |-> 84, CALL |-> 48, RETURN |-> 49, TAILCALL |-> 52,
   CALLF |-> 352, CALLFI |-> 353, CALLFII |-> 354, CALLFIII |-> 355,
   CATCH |-> 50, THROW |-> 51, GETMEMSIZE |-> 258, SETMEMSIZE |-> 259,
   MALLOC |-> 376, MFREE |-> 377, QUIT |-> 288, VERIFY |-> 289,
   RESTART |-> 290, SAVE |-> 291, RESTORE |-> 292, SAVEUNDO |-> 293,
   RESTOREUNDO |-> 294, PROTECT |-> 295, HASUNDO |-> 296,
   DISCARDUNDO |-> 297, GETIOSYS |-> 328, SETIOSYS |-> 329,
   STREAMCHAR |-> 112, STREAMNUM |-> 113, STREAMSTR |-> 114,
   STREAMUNICHAR |-> 115, GETSTRINGTBL |-> 320, SETSTRINGTBL |-> 321,
   NUMTOF |-> 400, FTONUMZ |-> 401, FTONUMN |-> 402, CEIL |-> 408,
   FLOOR |-> 409, FADD |-> 416, FSUB |-> 417, FMUL |-> 418, FDIV |-> 419,
   FMOD |-> 420, SQRT |-> 424, EXP |-> 425, LOG |-> 426, POW |-> 427,
   SIN |-> 432, COS |-> 433, TAN |-> 434, ASIN |-> 435, ACOS |-> 436,
   ATAN |-> 437, ATAN2 |-> 438, NUMTOD |-> 512, DTONUMZ |-> 513,
   DTONUMN |-> 514, FTOD |-> 515, DTOF |-> 516, DCEIL |-> 520,
   DFLOOR |-> 521, DADD |-> 528, DSUB |-> 529, DMUL |-> 530, DDIV |-> 531,
   DMODR |-> 532, DMODQ |-> 533, DSQRT |-> 536, DEXP |-> 537, DLOG |-> 538,
   DPOW |-> 539, DSIN |-> 544, DCOS |-> 545, DTAN |-> 546, DASIN |-> 547,
   DACOS |-> 548, DATAN |-> 549, DATAN2 |-> 550, JFEQ |-> 448, JFNE |-> 449,
   JFLT |-> 450, JFLE |-> 451, JFGT |-> 452, JFGE |-> 453, JISNAN |-> 456,
   JISINF |-> 457, JDEQ |-> 560, JDNE |-> 561, JDLT |-> 562, JDLE |-> 563,
   JDGT |-> 564, JDGE |-> 565, JDISNAN |-> 568, JDISINF |-> 569,
   RANDOM |-> 272, SETRANDOM |-> 273, MZERO |-> 368, MCOPY |-> 369,
   LINEARSEARCH |-> 336, BINARYSEARCH |-> 337, LINKEDSEARCH |-> 338,
   ACCELFUNC |-> 384, ACCELPARAM |-> 385, NOP |-> 0, GESTALT |-> 256,
   DEBUGTRAP |-> 257, GLK |-> 304]

OPCodeValues == {OPCode[name] : name \in DOMAIN OPCode}

\* OPCode::try_from(value) for a value that is an opcode number: its name
opcode_named(value) == CHOOSE name \in DOMAIN OPCode : OPCode[name] = value[2]

\* OPCode::get_operand_types: (loads, stores) of the opcode named self
get_operand_types(self) ==
  CASE self \in {"STKSWAP", "QUIT", "RESTART",
              "DISCARDUNDO", "NOP"} -> <<0, 0>>
    [] self \in {"STKCOUNT", "GETMEMSIZE", "SAVEUNDO",
              "RESTOREUNDO", "HASUNDO", "VERIFY",
              "GETSTRINGTBL"} -> <<0, 1>>
    [] self \in {"GETIOSYS"} -> <<0, 2>>
    [] self \in {"JUMP", "JUMPABS", "STKCOPY",
              "RETURN", "MFREE", "STREAMCHAR",
              "STREAMUNICHAR", "STREAMNUM", "STREAMSTR",
              "SETSTRINGTBL", "SETRANDOM", "DEBUGTRAP"} -> <<1, 0>>
    [] self \in {"NEG", "BITNOT", "COPY", "COPYS",
              "COPYB", "SEXS", "SEXB", "STKPEEK",
              "CALLF", "CATCH", "SETMEMSIZE", "MALLOC",
              "SAVE", "RESTORE", "NUMTOF", "FTONUMZ",
              "FTONUMN", "CEIL", "FLOOR", "SQRT",
              "EXP", "LOG", "SIN", "COS", "TAN",
              "ACOS", "ASIN", "ATAN", "RANDOM"} -> <<1, 1>>
    [] self \in {"NUMTOD", "FTOD"} -> <<1, 2>>
    [] self \in {"JZ", "JNZ", "STKROLL", "TAILCALL",
              "THROW", "PROTECT", "SETIOSYS", "JISNAN",
              "JISINF", "MZERO", "ACCELFUNC",
              "ACCELPARAM"} -> <<2, 0>>
    [] self \in {"ADD", "SUB", "MUL", "DIV",
              "MOD", "BITAND", "BITOR", "BITXOR",
              "SHIFTL", "USHIFTR", "SSHIFTR", "ALOAD",
              "ALOADS", "ALOADB", "ALOADBIT", "CALL",
              "CALLFI", "FADD", "FSUB", "FMUL",
              "FDIV", "POW", "ATAN2", "DTONUMZ",
              "DTONUMN", "DTOF", "GESTALT", "GLK"} -> <<2, 1>>
    [] self \in {"FMOD", "DCEIL", "DFLOOR", "DSQRT",
              "DEXP", "DLOG", "DSIN", "DCOS",
              "DTAN", "DACOS", "DASIN", "DATAN"} -> <<2, 2>>
    [] self \in {"JEQ", "JNE", "JLT", "JLE",
              "JGT", "JGE", "JLTU", "JLEU",
              "JGTU", "JGEU", "ASTORE", "ASTORES",
              "ASTOREB", "ASTOREBIT", "JFLT", "JFLE",
              "JFGT", "JFGE", "JDISNAN", "JDISINF",
              "MCOPY"} -> <<3, 0>>
    [] self \in {"CALLFII"} -> <<3, 1>>
    [] self \in {"JFEQ", "JFNE"} -> <<4, 0>>
    [] self \in {"CALLFIII"} -> <<4, 1>>
    [] self \in {"DADD", "DSUB", "DMUL", "DDIV",
              "DMODR", "DMODQ", "DPOW", "DATAN2"} -> <<4, 2>>
    [] self \in {"JDLT", "JDLE", "JDGT", "JDGE"} -> <<5, 0>>
    [] self \in {"LINKEDSEARCH"} -> <<6, 1>>
    [] self \in {"JDEQ", "JDNE"} -> <<7, 0>>
    [] self \in {"LINEARSEARCH", "BINARYSEARCH"} -> <<7, 1>>

\* x & mask and x >> 4 on a u8, for the masks the decoder uses
low_nibble(modes) == modes % 16

high_nibble(modes) == (modes - (modes % 16)) \div 16

\* the bytes an immediate of each addressing mode takes
immediate_size(mode) ==
  CASE mode \in {1, 5, 9, 13} -> 1
    [] mode \in {2, 6, 10, 14} -> 2
    [] mode \in {3, 7, 11, 15} -> 4
    [] OTHER -> 0

\* enum OperandAddressingMode, by discriminant
variant_name(mode) ==
  <<"ConstantZero", "Constant1Byte", "Constant2Bytes", "Constant4Bytes",
    "__Unused1",
    "ContentOfAddress1Byte", "ContentOfAddress2Bytes", "ContentOfAddress4Bytes",
    "Stack",
    "CallFrameLocalAtAddress1Byte", "CallFrameLocalAtAddress2Bytes",
    "CallFrameLocalAtAddress4Bytes",
    "__Unused2",
    "ContentOfRAMAddress1Byte", "ContentOfRAMAddress2Bytes",
    "ContentOfRAMAddress4Bytes">>[mode + 1]

\* read_u8()? as u32, read_u16::<BigEndian>()? as u32, read_u32::<BigEndian>()?
\* of the n bytes at the cursor
read_immediate(bytes, at, n) ==
  CASE n = 1 -> as_u32(bytes[at + 1])
    [] n = 2 -> as_u32(u16_from_be_bytes(Slice(bytes, at, 2)))
    [] n = 4 -> u32_from_be_bytes(Slice(bytes, at, 4))
    [] OTHER -> U32Zero

\* try_fetch as it would be if modes 4 and 12 were refused
try_fetch_refusing_reserved(bytes, at, mode) ==
  IF mode > 15 \/ mode \in {4, 12}
  THEN [kind |-> "Err", err |-> "ReservedOperandMode", at |-> at]
  ELSE LET n == immediate_size(mode)
       IN  IF at + n > Len(bytes)
           THEN [kind |-> "Err", err |-> "Io", at |-> at]
           ELSE [kind |-> "Ok", at |-> at + n,
                 addressing_mode |-> [variant |-> variant_name(mode),
                                      value |-> read_immediate(bytes, at, n)]]

\* OperandAddressingMode::try_fetch with the cursor at `at`; a variant
\* without payload has value 0 here
try_fetch(bytes, at, mode) ==
  IF mode > 15 THEN [kind |-> "Err", err |-> "NoVariantMatch", at |-> at]
  ELSE LET n == immediate_size(mode)
       IN  IF at + n > Len(bytes)
           THEN [kind |-> "Err", err |-> "Io", at |-> at]
           ELSE [kind |-> "Ok", at |-> at + n,
                 addressing_mode |-> [variant |-> variant_name(mode),
                                      value |-> read_immediate(bytes, at, n)]]

\* operand_modes without the CATCH arm
operand_modes_loads_first(opcode) ==
  LET operand_types == get_operand_types(opcode)
  IN  [i \in 1..operand_types[1] |-> "Load"] \o [i \in 1..operand_types[2] |-> "Store"]

\* the operand directions, in decoding order
operand_modes(opcode) ==
  LET operand_types == get_operand_types(opcode)
      loads == [i \in 1..operand_types[1] |-> "Load"]
      stores == [i \in 1..operand_types[2] |-> "Store"]
  IN  IF opcode = "CATCH" THEN stores \o loads ELSE loads \o stores

\* ((nb_operands as f32 / 2.0).ceil() as u32)
mode_byte_count(nb_operands) == (nb_operands + 1) \div 2

\* read_modes pushing the high nibble first
RECURSIVE read_modes_high_first(_, _, _)
read_modes_high_first(bytes, at, count) ==
  IF count = 0 THEN <<>>
  ELSE <<high_nibble(bytes[at + 1]), low_nibble(bytes[at + 1])>>
         \o read_modes_high_first(bytes, at + 1, count - 1)

\* the loop reading the mode bytes: low nibble pushed first, then the high
RECURSIVE read_modes(_, _, _)
read_modes(bytes, at, count) ==
  IF count = 0 THEN <<>>
  ELSE <<low_nibble(bytes[at + 1]), high_nibble(bytes[at + 1])>>
         \o read_modes(bytes, at + 1, count - 1)

\* operands_raw.iter().take(nb_operands)
take(seq, n) == SubSeq(seq, 1, IF n < Len(seq) THEN n ELSE Len(seq))

\* the loop zipping the raw modes with the directions
RECURSIVE fetch_operands(_, _, _, _, _)
fetch_operands(bytes, at, raw_modes, types, operands) ==
  IF raw_modes = <<>> \/ types = <<>>
  THEN [kind |-> "Ok", at |-> at, operands |-> operands]
  ELSE LET fetched == try_fetch(bytes, at, Head(raw_modes))
       IN  IF fetched.kind # "Ok"
           THEN [kind |-> "Err", err |-> "BinRead", at |-> fetched.at,
                 operands |-> operands]
           ELSE fetch_operands(bytes, fetched.at, Tail(raw_modes), Tail(types),
                  Append(operands, [operand_mode |-> Head(types),
                                    addressing_mode |-> fetched.addressing_mode]))

\* Operand::fetch_for_opcode with the cursor at `at`
fetch_for_opcode(bytes, at, opcode) ==
  LET operand_types == get_operand_types(opcode)
      nb_operands == operand_types[1] + operand_types[2]
      types == operand_modes(opcode)
      count == mode_byte_count(nb_operands)
  IN  IF at + count > Len(bytes)
      THEN [kind |-> "Err", err |-> "IOError", operands |-> <<>>,
            mode_bytes |-> IF Len(bytes) > at THEN Len(bytes) - at ELSE 0,
            at |-> IF Len(bytes) > at THEN Len(bytes) ELSE at]
      ELSE LET operands_raw == read_modes(bytes, at, count)
               fetched == fetch_operands(bytes, at + count,
                                         take(operands_raw, nb_operands), types, <<>>)
           IN  [kind |-> fetched.kind,
                err |-> IF fetched.kind = "Ok" THEN "" ELSE fetched.err,
                operands |-> fetched.operands,
                mode_bytes |-> count,
                at |-> fetched.at]

\* the opcode number Operation::fetch reads at pos: [kind, value, len] with
\* len the bytes read for it.  overflow_checks is the build profile: with it
\* `value -= ..` panics on underflow, without it the difference wraps
opcode_value(bytes, pos, overflow_checks) ==
  IF ~InBuffer(bytes, pos, 1) THEN [kind |-> "Err", value |-> U32Zero, len |-> 0]
  ELSE LET b0 == bytes[pos[2] + 1]
       IN  IF b0 < 128 THEN [kind |-> "Ok", value |-> as_u32(b0), len |-> 1]
           ELSE IF ~InBuffer(bytes, pos, 2)
           THEN [kind |-> "Err", value |-> as_u32(b0), len |-> 1]
           ELSE LET v2 == b0 * 256 + bytes[pos[2] + 2]
                IN  IF v2 >= 49152
                    THEN IF ~InBuffer(bytes, pos, 4)
                         THEN [kind |-> "Err", value |-> as_u32(v2), len |-> 2]
                         ELSE LET v4 == <<v2, u16_from_be_bytes(Slice(bytes, pos[2] + 2, 2))>>
                              IN  IF u32_lt(v4, <<49408, 0>>) /\ overflow_checks
                                  THEN [kind |-> "Panic", value |-> v4, len |-> 4]
                                  ELSE [kind |-> "Ok", len |-> 4,
                                        value |-> wrapping_sub(v4, <<49408, 0>>)]
                    ELSE [kind |-> "Ok", value |-> as_u32(v2 - 32768), len |-> 2]

\* OPCode::try_from(value) is Ok
is_opcode(value) == value[1] = 0 /\ value[2] \in OPCodeValues

\* Operation::fetch on a cursor over bytes
fetch(bytes, pos, overflow_checks) ==
  LET number == opcode_value(bytes, pos, overflow_checks)
      none == [value |-> number.value, opcode_bytes |-> number.len, code |-> "",
               operands |-> <<>>, mode_bytes |-> 0, at |-> pos[2] + number.len]
  IN  CASE number.kind = "Err" -> [kind |-> "Err", err |-> "IOError"] @@ none
        [] number.kind = "Panic" ->
             [kind |-> "Panic", err |-> "attempt to subtract with overflow"] @@ none
        [] ~is_opcode(number.value) -> [kind |-> "Err", err |-> "FetchOperation"] @@ none
        [] OTHER ->
             LET operands == fetch_for_opcode(bytes, pos[2] + number.len,
                                             opcode_named(number.value))
             IN  [kind |-> operands.kind,
                  err |-> operands.err,
                  value |-> number.value,
                  opcode_bytes |-> number.len,
                  code |-> opcode_named(number.value),
                  operands |-> operands.operands,
                  mode_bytes |-> operands.mode_bytes,
                  at |-> operands.at]

\* decoder inputs: opcode bytes followed by further bytes, at most MaxLen
\* bytes in all (two fewer for each byte the decoder is told to skip)
InputOpcodeBytes ==
  {<<0>>, <<16>>, <<32>>, <<50>>,
   <<128, 128>>, <<129, 4>>, <<129, 72>>, <<129, 80>>, <<191, 255>>,
   <<192, 0, 1, 4>>, <<192, 0, 64, 0>>, <<193, 0, 0, 16>>, <<255, 255, 255, 255>>}

InputRestBytes == {0, 129, 70, 76, 255}

InputPositions == {<<0, 0>>, <<0, 1>>}

InitFetch ==
  /\ \E pos \in InputPositions, op \in InputOpcodeBytes :
       /\ Len(op) + 2 * pos[2] <= MaxLen
       /\ \E k \in 0..(MaxLen - Len(op) - 2 * pos[2]) :
            \E rest \in [1..k -> InputRestBytes] :
              /\ pc = pos
              /\ raw = op \o rest
  /\ status = "decode"
  /\ image = <<>>
  /\ result = NoResult
  /\ start_ram_address = U32Zero
  /\ header_reads = 0
  /\ last = NoAccess
  /\ nops = 0
  /\ operation = NoOperation

\* Operation::fetch(&mut cursor over raw, pc)
Fetch ==
  /\ status = "decode"
  /\ \E overflow_checks \in BOOLEAN : operation' = fetch(raw, pc, overflow_checks)
  /\ status' = "decoded"
  /\ UNCHANGED <<image, result, raw, start_ram_address, pc, header_reads, last, nops>>

NextFetch == Fetch

SpecFetch == InitFetch /\ [][NextFetch]_vars
----------------------------------------------------------------------------
(* Properties of the decoder, checked under SpecFetch.                     *)

Decoded == status = "decoded"

\* the opcode was recognised, so the operands were decoded
Recognised == Decoded /\ operation.code # ""

\* number of operands of the decoded opcode
Arity == get_operand_types(operation.code)[1] + get_operand_types(operation.code)[2]

\* index in raw (from 0) of the first mode byte
ModeStart == pc[2] + operation.opcode_bytes

HalfUp(n) == (n \div 2) + (n % 2)

\* all the mode bytes of the instruction lie in the buffer
HasModeBytes == ModeStart + HalfUp(Arity) <= Len(raw)

\* the mode nibble of operand k (from 0): operand 2j is the low nibble of
\* mode byte j, operand 2j+1 the high nibble
Nibble(k) ==
  LET byte == raw[ModeStart + (k \div 2) + 1]
  IN  IF k % 2 = 0 THEN byte % 16 ELSE byte \div 16

ImmediateWidth(m) ==
  IF m \in {0, 4, 8, 12} THEN 0
  ELSE IF m % 4 = 1 THEN 1 ELSE IF m % 4 = 2 THEN 2 ELSE 4

\* index in raw (from 0) of the immediate of operand k
RECURSIVE ImmediateStart(_)
ImmediateStart(k) ==
  IF k = 0 THEN ModeStart + HalfUp(Arity)
  ELSE ImmediateStart(k - 1) + ImmediateWidth(Nibble(k - 1))

\* the immediate bytes of operand k
Immediate(k) == Slice(raw, ImmediateStart(k), ImmediateWidth(Nibble(k)))

\* raw with the high nibble of the byte at index i (from 0) set to h
WithHighNibble(i, h) == [raw EXCEPT ![i + 1] = h * 16 + (raw[i + 1] % 16)]

\* C5: for an opcode with n = loads + stores operands, ceil(n/2) mode bytes
\* are read after the opcode; operand 2k has the mode of the low nibble and
\* operand 2k+1 that of the high nibble of mode byte k; when n is odd the high
\* nibble of the last mode byte changes nothing of what the decoder returns;
\* a decoded instruction has exactly n operands.
C5_OperandPacking ==
  (Recognised /\ HasModeBytes) =>
    /\ operation.mode_bytes = HalfUp(Arity)
    /\ operation.kind = "Ok" => Len(operation.operands) = Arity
    /\ \A k \in 0..(Len(operation.operands) - 1) :
         operation.operands[k + 1].addressing_mode.variant = variant_name(Nibble(k))
    /\ (Arity % 2 = 1) =>
         \A h \in 0..15 :
           fetch(WithHighNibble(ModeStart + HalfUp(Arity) - 1, h), pc, TRUE) = operation

\* an instruction with three operands was decoded whose last mode byte has a
\* non-zero high nibble
C5_Witness ==
  /\ Recognised /\ HasModeBytes /\ operation.kind = "Ok"
  /\ Arity = 3
  /\ Nibble(0) # Nibble(1)
  /\ raw[ModeStart + 2] \div 16 = 4

\* C6: CATCH decodes to a Store operand (from the low nibble of the mode
\* byte) followed by a Load operand; every other opcode decodes to its loads
\* Load operands followed by its stores Store operands.
C6_OperandDirections ==
  (Recognised /\ operation.kind = "Ok") =>
    LET types == get_operand_types(operation.code)
        dirs == [k \in 1..Len(operation.operands) |-> operation.operands[k].operand_mode]
    IN  IF operation.code = "CATCH"
        THEN /\ dirs = <<"Store", "Load">>
             /\ operation.operands[1].addressing_mode.variant =
                  variant_name(raw[ModeStart + 1] % 16)
        ELSE /\ Len(dirs) = types[1] + types[2]
             /\ \A k \in 1..Len(dirs) : dirs[k] = IF k <= types[1] THEN "Load" ELSE "Store"

\* CATCH was decoded with different modes for its two operands
C6_Witness ==
  /\ Recognised /\ operation.kind = "Ok"
  /\ operation.code = "CATCH"
  /\ Len(operation.operands) = 2
  /\ Nibble(0) # Nibble(1)

\* some operand of the instruction has a reserved mode (4 or 12)
UsesReserved == \E k \in 0..(Arity - 1) : Nibble(k) \in {4, 12}

\* C7 as claimed: a used mode nibble 4 or 12 makes decoding fail with
\* ReservedOperandMode.
C7_ReservedModeFails ==
  (Recognised /\ HasModeBytes /\ UsesReserved) =>
    (operation.kind = "Err" /\ operation.err = "ReservedOperandMode")

\* C7 as the decoder has it: a used mode nibble 4 or 12 is no error; the
\* operand is decoded as __Unused1 (4) or __Unused2 (12) and takes no
\* immediate byte, and an instruction whose modes take no immediates decodes
\* to an Operation that ends right after its mode bytes.
C7_ReservedModeDecoded ==
  (Recognised /\ HasModeBytes) =>
    /\ operation.err # "ReservedOperandMode"
    /\ \A k \in 0..(Len(operation.operands) - 1) :
         LET mode == operation.operands[k + 1].addressing_mode
         IN  /\ Nibble(k) = 4 => mode = [variant |-> "__Unused1", value |-> U32Zero]
             /\ Nibble(k) = 12 => mode = [variant |-> "__Unused2", value |-> U32Zero]
             /\ Nibble(k) \in {4, 12} =>
                  (k + 1 < Arity => ImmediateStart(k + 1) = ImmediateStart(k))
    /\ (\A k \in 0..(Arity - 1) : Nibble(k) \in {0, 4, 8, 12}) =>
         /\ operation.kind = "Ok"
         /\ operation.at = ModeStart + HalfUp(Arity)

\* an Operation was returned that has a __Unused1 and a __Unused2 operand
C7_Witness ==
  /\ Recognised /\ operation.kind = "Ok"
  /\ \E j, k \in 1..Len(operation.operands) :
       /\ operation.operands[j].addressing_mode.variant = "__Unused1"
       /\ operation.operands[k].addressing_mode.variant = "__Unused2"

\* the opcode number and its length in bytes as the Glulx encoding defines
\* them, for the first byte at pc
EncodedOpcode ==
  LET b0 == raw[pc[2] + 1]
  IN  IF b0 < 128 THEN [len |-> 1, value |-> <<0, b0>>]
      ELSE IF b0 < 192
      THEN [len |-> 2, value |-> <<0, (b0 % 128) * 256 + raw[pc[2] + 2]>>]
      ELSE [len |-> 4, value |-> <<(b0 - 192) * 256 + raw[pc[2] + 2],
                                   raw[pc[2] + 3] * 256 + raw[pc[2] + 4]>>]

\* the bytes of the opcode number at pc lie in the buffer
HasOpcodeBytes ==
  /\ pc[2] + 1 <= Len(raw)
  /\ raw[pc[2] + 1] >= 128 => pc[2] + 2 <= Len(raw)
  /\ raw[pc[2] + 1] >= 192 => pc[2] + 4 <= Len(raw)

\* C4: the opcode number is b0 (one byte read) when b0 < 0x80,
\* ((b0 & 0x7F) << 8) | b1 (two bytes) when the top bits of b0 are 10, and the
\* big-endian value of b0..b3 minus 0xC000_0000 (four bytes) when they are
\* 11, computed without arithmetic underflow.
C4_OpcodeNumber ==
  (Decoded /\ HasOpcodeBytes) =>
    /\ operation.kind # "Panic"
    /\ operation.value = EncodedOpcode.value
    /\ operation.opcode_bytes = EncodedOpcode.len

\* the part of C4 about the one- and two-byte encodings
OneAndTwoByteOpcodes ==
  (Decoded /\ HasOpcodeBytes /\ raw[pc[2] + 1] < 192) =>
    /\ operation.kind # "Panic"
    /\ operation.value = EncodedOpcode.value
    /\ operation.opcode_bytes = EncodedOpcode.len

\* two's-complement sign-extension and zero-extension of a big-endian
\* immediate of 1, 2 or 4 bytes to 32 bits
SignExtend(imm) ==
  CASE Len(imm) = 1 -> IF imm[1] < 128 THEN <<0, imm[1]>> ELSE <<65535, 65280 + imm[1]>>
    [] Len(imm) = 2 -> IF imm[1] < 128 THEN <<0, imm[1] * 256 + imm[2]>>
                       ELSE <<65535, imm[1] * 256 + imm[2]>>
    [] OTHER -> <<imm[1] * 256 + imm[2], imm[3] * 256 + imm[4]>>

ZeroExtend(imm) ==
  CASE Len(imm) = 1 -> <<0, imm[1]>>
    [] Len(imm) = 2 -> <<0, imm[1] * 256 + imm[2]>>
    [] OTHER -> <<imm[1] * 256 + imm[2], imm[3] * 256 + imm[4]>>

\* C8: a decoded constant operand (modes 1, 2, 3) carries the sign-extension
\* of its immediate, an address operand (modes 5-7, 9-B, D-F) the
\* zero-extension of its immediate.
C8_ImmediateExtension ==
  Recognised =>
    \A k \in 0..(Len(operation.operands) - 1) :
      LET value == operation.operands[k + 1].addressing_mode.value
      IN  /\ Nibble(k) \in {1, 2, 3} => value = SignExtend(Immediate(k))
          /\ Nibble(k) \in {5, 6, 7, 9, 10, 11, 13, 14, 15} =>
               value = ZeroExtend(Immediate(k))

\* the part of C8 about the address operands
AddressImmediatesZeroExtended ==
  Recognised =>
    \A k \in 0..(Len(operation.operands) - 1) :
      Nibble(k) \in {5, 6, 7, 9, 10, 11, 13, 14, 15} =>
        operation.operands[k + 1].addressing_mode.value = ZeroExtend(Immediate(k))
====
